---- MODULE Spec2Model ----
(***************************************************************************)
(* Model of server.js, the meeting-booking server: the slot validator      *)
(* (toMinutes, parseAndValidateSlot, hasOverlap), the persistence helpers  *)
(* (ensureDataFile, readBookings, writeBookings) and the three API         *)
(* handlers of handleApi (GET, POST, DELETE on /api/bookings).             *)
(*                                                                         *)
(* Node runs every callback to completion on one thread.  The GET and      *)
(* DELETE handlers are synchronous, so each is one action.  The POST       *)
(* handler is asynchronous only while the body is received: 'data',       *)
(* 'end' and 'error' events of different requests interleave freely.  The  *)
(* .then / .catch callback of parseRequestBody's promise is a microtask:   *)
(* it runs when the listener that settled the promise returns, before the  *)
(* next event is dispatched, so it is part of that listener's action.      *)
(***************************************************************************)
EXTENDS Integers, Sequences, FiniteSets, TLC

VARIABLES
    listening,  \* server.listen's callback has run
    crashed,    \* an exception escaped a request listener: the process is gone
    file,       \* data/bookings.json: [kind, items]
    reqs,       \* POST requests whose body is being received: id -> [received, settled, rivals]
    nextReq,    \* number of POST requests accepted so far
    nextId,     \* number of ids randomUUID has handed out
    clock,      \* the wall clock new Date() reads
    last,       \* history: the most recent response, with what the handler did for it
    answers,    \* history: how many responses each POST request has been sent
    interleaved, \* history: some request was handled while a POST body was being received
    deleted,    \* history: the ids DELETE answered 200 for
    input,      \* the arguments a function of the program is called with on its own
    output      \* what that call returned

\* the variables of a call of one function on its own
call == <<input, output>>

vars == <<listening, crashed, file, reqs, nextReq, nextId, clock,
          last, answers, interleaved, deleted, input, output>>

----------------------------------------------------------------------------
(* Bounds of the model. *)

\* POST requests accepted in one run.
MaxRequests == 3

\* POST requests whose body is being received at the same time.
MaxInFlight == 2

\* 'data' events one request body is delivered in.
MaxChunks == 2

----------------------------------------------------------------------------
(* Strings are sequences of one-character strings. *)

DigitChars == {"0", "1", "2", "3", "4", "5", "6", "7", "8", "9"}

\* \d of the regular expressions
IsDigit(c) == c \in DigitChars

DigitVal(c) ==
    CASE c = "0" -> 0 [] c = "1" -> 1 [] c = "2" -> 2 [] c = "3" -> 3
      [] c = "4" -> 4 [] c = "5" -> 5 [] c = "6" -> 6 [] c = "7" -> 7
      [] c = "8" -> 8 [] c = "9" -> 9

RECURSIVE DecVal(_)
\* the value of a string of decimal digits
DecVal(s) ==
    IF s = <<>> THEN 0
    ELSE 10 * DecVal(SubSeq(s, 1, Len(s) - 1)) + DigitVal(s[Len(s)])

AllDigits(s) == \A i \in 1..Len(s) : IsDigit(s[i])

----------------------------------------------------------------------------
(* JavaScript values of the request body's fields.  A number is an integer *)
(* n (k = "int"), n + 1/2 (k = "half") or NaN (k = "nan").                 *)

JsString(s) == [t |-> "string", s |-> s, n |-> 0, k |-> "int"]
JsInt(n) == [t |-> "number", s |-> <<>>, n |-> n, k |-> "int"]
JsHalf(n) == [t |-> "number", s |-> <<>>, n |-> n, k |-> "half"]
JsNaN == [t |-> "number", s |-> <<>>, n |-> 0, k |-> "nan"]
JsUndefined == [t |-> "undefined", s |-> <<>>, n |-> 0, k |-> "int"]
JsNull == [t |-> "object", s |-> <<>>, n |-> 0, k |-> "int"]
JsTrue == [t |-> "boolean", s |-> <<>>, n |-> 1, k |-> "int"]
JsFalse == [t |-> "boolean", s |-> <<>>, n |-> 0, k |-> "int"]

\* Number(string) for the strings the model submits: "" is 0, a string of
\* digits is its decimal value, digits followed by ".5" is a half, anything
\* else is NaN.
StringToNumber(s) ==
    IF s = <<>> THEN JsInt(0)
    ELSE IF AllDigits(s) THEN JsInt(DecVal(s))
    ELSE IF /\ Len(s) >= 3
            /\ SubSeq(s, Len(s) - 1, Len(s)) = <<".", "5">>
            /\ AllDigits(SubSeq(s, 1, Len(s) - 2))
         THEN JsHalf(DecVal(SubSeq(s, 1, Len(s) - 2)))
    ELSE JsNaN

\* Number(v)
ToNumber(v) ==
    CASE v.t = "number" -> v
      [] v.t = "string" -> StringToNumber(v.s)
      [] v.t = "boolean" -> JsInt(v.n)
      [] v.t = "undefined" -> JsNaN
      [] v.t = "object" -> JsInt(0)

\* Number.isFinite(x) for Number.isInteger(x)
NumberIsFinite(x) == x.t = "number" /\ x.k # "nan"

\* Number.isInteger(x)
NumberIsInteger(x) == x.t = "number" /\ x.k = "int"

\* x >= 0 for a number x
IsNonNegative(x) ==
    CASE x.k = "int" -> x.n >= 0
      [] x.k = "half" -> x.n >= 0
      [] x.k = "nan" -> FALSE

\* x > 0 for a number x
IsPositive(x) ==
    CASE x.k = "int" -> x.n > 0
      [] x.k = "half" -> x.n >= 0
      [] x.k = "nan" -> FALSE

----------------------------------------------------------------------------
(* The slot validator. *)

\* /^\d{4}-\d{2}-\d{2}$/.test(date)
IsValidDate(s) ==
    /\ Len(s) = 10
    /\ \A i \in {1, 2, 3, 4, 6, 7, 9, 10} : IsDigit(s[i])
    /\ s[5] = "-"
    /\ s[8] = "-"

\* /^\d{2}:\d{2}$/.test(time)
IsValidTime(s) ==
    /\ Len(s) = 5
    /\ \A i \in {1, 2, 4, 5} : IsDigit(s[i])
    /\ s[3] = ":"

RECURSIVE SplitColon(_)
\* s.split(':')
SplitColon(s) ==
    IF \A i \in 1..Len(s) : s[i] # ":" THEN <<s>>
    ELSE LET p == CHOOSE i \in 1..Len(s) :
                      s[i] = ":" /\ \A j \in 1..(i - 1) : s[j] # ":"
         IN <<SubSeq(s, 1, p - 1)>> \o SplitColon(SubSeq(s, p + 1, Len(s)))

\* Minutes in an hour, the 60 of toMinutes.
MinutesPerHour == 60

\* the day's last minute taken for its length
MinutesPerDayLastMinute == (24 * 60) - 1

\* The 24 * 60 of parseAndValidateSlot.
MinutesPerDay == 24 * 60

\* toMinutes(time); it is called only with a time that passed IsValidTime,
\* so both parts are digit strings and Number gives their decimal value.
toMinutes(time) ==
    LET parts == SplitColon(time)
        hours == DecVal(parts[1])
        minutes == DecVal(parts[2])
    IN (hours * MinutesPerHour) + minutes

InvalidMessage == "Invalid date, time, or duration."
MidnightMessage == "Meeting cannot cross midnight."
NoError == ""

\* the slot fields of a rejected input
NoSlot(error) ==
    [error |-> error, date |-> <<>>, time |-> <<>>, duration |-> JsInt(0),
     startMinutes |-> 0, endMinutes |-> 0]

\* parseAndValidateSlot(body) for a body that is an object.  The end is
\* computed for a duration that is an integer only.
parseAndValidateSlot(body) ==
    LET date == IF body.date.t = "string" THEN body.date.s ELSE <<>>
        time == IF body.time.t = "string" THEN body.time.s ELSE <<>>
        duration == ToNumber(body.duration)
        isValidDate == IsValidDate(date)
        isValidTime == IsValidTime(time)
        isValidDuration == NumberIsInteger(duration) /\ IsPositive(duration)
    IN IF ~isValidDate \/ ~isValidTime \/ ~isValidDuration
       THEN NoSlot(InvalidMessage)
       ELSE LET startMinutes == toMinutes(time)
                endMinutes == startMinutes + duration.n
            IN IF endMinutes > MinutesPerDay
               THEN NoSlot(MidnightMessage)
               ELSE [error |-> NoError, date |-> date, time |-> time,
                     duration |-> duration, startMinutes |-> startMinutes,
                     endMinutes |-> endMinutes]

\* hasOverlap testing the new slot's start against both ends
hasOverlapStartOnly(aStart, aEnd, bStart, bEnd) ==
    aStart < bEnd /\ aStart > bStart

\* hasOverlap with <= and >=: intervals that touch overlap
hasOverlapClosed(aStart, aEnd, bStart, bEnd) ==
    aStart <= bEnd /\ aEnd >= bStart

\* hasOverlap(aStart, aEnd, bStart, bEnd)
hasOverlap(aStart, aEnd, bStart, bEnd) == aStart < bEnd /\ aEnd > bStart

----------------------------------------------------------------------------
(* The data file.  kind is "absent" (no file), "array" (a JSON array, its  *)
(* elements in items), "nonarray" (JSON that is not an array) or "corrupt" *)
(* (not JSON).  JSON.stringify followed by JSON.parse gives back the same  *)
(* strings and integers, so an array payload is kept as its elements.      *)
(* A file holding a JSON array may have lost its permissions: kind is      *)
(* "unreadable" when fs.readFileSync throws on it, and "readonly" when it  *)
(* can be read and fs.writeFileSync throws on it.                          *)

AbsentFile == [kind |-> "absent", items |-> <<>>]
ArrayFile(bookings) == [kind |-> "array", items |-> bookings]
NonArrayFile == [kind |-> "nonarray", items |-> <<>>]
CorruptFile == [kind |-> "corrupt", items |-> <<>>]

\* ensureDataFile writing '[]' whether or not the file exists
ensureDataFileAlways(f) == [kind |-> "array", items |-> <<>>]

\* ensureDataFile(): the file afterwards
ensureDataFile(f) == IF f.kind = "absent" THEN ArrayFile(<<>>) ELSE f

SyntaxErrorMessage == "Unexpected token in JSON"
AccessErrorMessage == "EACCES: permission denied"

\* readBookings(): what it returns, or that fs.readFileSync or JSON.parse
\* threw, and the message of what was thrown
readBookings(f) ==
    LET g == ensureDataFile(f)
    IN CASE g.kind = "corrupt" ->
              [threw |-> TRUE, value |-> <<>>, message |-> SyntaxErrorMessage]
         [] g.kind = "unreadable" ->
              [threw |-> TRUE, value |-> <<>>, message |-> AccessErrorMessage]
         [] g.kind \in {"array", "readonly"} ->
              [threw |-> FALSE, value |-> g.items, message |-> NoError]
         [] g.kind = "nonarray" ->
              [threw |-> FALSE, value |-> <<>>, message |-> NoError]

\* fs.writeFileSync throws on the file
writeThrows(f) == f.kind \in {"readonly", "unreadable"}

\* writeBookings(bookings): the file afterwards
writeBookings(bookings) == ArrayFile(bookings)

----------------------------------------------------------------------------
(* The sorted view of GET /api/bookings. *)

\* collation order of the characters of a date: "-" before the digits
CharRank(c) == IF c = "-" THEN 0 ELSE 1 + DigitVal(c)

RECURSIVE localeCompare(_, _)
\* a.localeCompare(b) for strings of digits and "-": negative, 0 or positive
localeCompare(a, b) ==
    IF a = <<>> /\ b = <<>> THEN 0
    ELSE IF a = <<>> THEN -1
    ELSE IF b = <<>> THEN 1
    ELSE IF CharRank(a[1]) # CharRank(b[1]) THEN CharRank(a[1]) - CharRank(b[1])
    ELSE localeCompare(Tail(a), Tail(b))

\* the comparator without its tie-break on startMinutes
compareBookingsDateOnly(a, b) ==
    IF a.date = b.date THEN 0 ELSE localeCompare(a.date, b.date)

\* the comparator given to sort
compareBookings(a, b) ==
    IF a.date = b.date THEN a.startMinutes - b.startMinutes
    ELSE localeCompare(a.date, b.date)

RECURSIVE InsertSorted(_, _)
\* x put into the sorted s behind every element that does not follow it
InsertSorted(s, x) ==
    IF s = <<>> THEN <<x>>
    ELSE IF compareBookings(s[Len(s)], x) <= 0 THEN Append(s, x)
    ELSE Append(InsertSorted(SubSeq(s, 1, Len(s) - 1), x), s[Len(s)])

RECURSIVE sortBookings(_)
\* bookings.sort(comparator): Array.prototype.sort is stable
sortBookings(s) ==
    IF s = <<>> THEN <<>>
    ELSE InsertSorted(sortBookings(SubSeq(s, 1, Len(s) - 1)), s[Len(s)])

----------------------------------------------------------------------------
(* The booking store's computations. *)

NoBooking ==
    [id |-> 0, date |-> <<>>, time |-> <<>>, duration |-> JsInt(0),
     startMinutes |-> 0, endMinutes |-> 0, createdAt |-> 0]

\* the predicate of find without its test of the date
ConflictsAnyDate(slot, existing) ==
    hasOverlap(slot.startMinutes, slot.endMinutes,
               existing.startMinutes, existing.endMinutes)

\* the predicate given to bookings.find
Conflicts(slot, existing) ==
    /\ existing.date = slot.date
    /\ hasOverlap(slot.startMinutes, slot.endMinutes,
                  existing.startMinutes, existing.endMinutes)

\* find on the bookings sorted as list sorts them: the conflicting booking
\* that starts first
findConflictSorted(bookings, slot) ==
    LET sorted == sortBookings(bookings)
    IN IF \E i \in 1..Len(sorted) : Conflicts(slot, sorted[i])
       THEN sorted[CHOOSE i \in 1..Len(sorted) :
                       /\ Conflicts(slot, sorted[i])
                       /\ \A j \in 1..(i - 1) : ~Conflicts(slot, sorted[j])]
       ELSE NoBooking

\* bookings.find(...): the first conflicting element, or NoBooking (undefined)
findConflict(bookings, slot) ==
    IF \E i \in 1..Len(bookings) : Conflicts(slot, bookings[i])
    THEN bookings[CHOOSE i \in 1..Len(bookings) :
                      /\ Conflicts(slot, bookings[i])
                      /\ \A j \in 1..(i - 1) : ~Conflicts(slot, bookings[j])]
    ELSE NoBooking

\* the booking object with startMinutes and endMinutes taken from each other
makeBookingSwapped(slot, id, now) ==
    [id |-> id, date |-> slot.date, time |-> slot.time,
     duration |-> slot.duration, startMinutes |-> slot.endMinutes,
     endMinutes |-> slot.startMinutes, createdAt |-> now]

\* the booking object built from a slot
makeBooking(slot, id, now) ==
    [id |-> id, date |-> slot.date, time |-> slot.time,
     duration |-> slot.duration, startMinutes |-> slot.startMinutes,
     endMinutes |-> slot.endMinutes, createdAt |-> now]

\* the new booking alone, the loaded bookings dropped
pushBookingAlone(bookings, booking) == <<booking>>

\* bookings.push(booking)
pushBooking(bookings, booking) == Append(bookings, booking)

\* filter with === for !==: it keeps what it should remove
filterOutInverted(bookings, bookingId) ==
    SelectSeq(bookings, LAMBDA item : item.id = bookingId)

\* filter with > for !==: it removes the older bookings too
filterOutBelow(bookings, bookingId) ==
    SelectSeq(bookings, LAMBDA item : item.id > bookingId)

\* bookings.filter((item) => item.id !== bookingId)
filterOut(bookings, bookingId) ==
    SelectSeq(bookings, LAMBDA item : item.id # bookingId)

\* the test with next.length === 0 for next.length === bookings.length
notFoundWhenEmpty(bookings, next) == Len(next) = 0

\* next.length === bookings.length
notFound(bookings, next) == Len(next) = Len(bookings)

----------------------------------------------------------------------------
(* The requests the clients send. *)

Date0601 == <<"2", "0", "2", "4", "-", "0", "6", "-", "0", "1">>
Date0602 == <<"2", "0", "2", "4", "-", "0", "6", "-", "0", "2">>
DateShort == <<"2", "0", "2", "4", "-", "6", "-", "0", "1">>
Time0900 == <<"0", "9", ":", "0", "0">>
Time0930 == <<"0", "9", ":", "3", "0">>
Time1000 == <<"1", "0", ":", "0", "0">>
Time2330 == <<"2", "3", ":", "3", "0">>
Time0099 == <<"0", "0", ":", "9", "9">>
TimeShort == <<"9", ":", "0", "0">>

\* what JSON.parse(data) gives for a body {date, time, duration}
Body(date, time, duration) ==
    [t |-> "object", date |-> date, time |-> time, duration |-> duration]

\* what JSON.parse(data) gives for the body null
NullBody ==
    [t |-> "null", date |-> JsUndefined, time |-> JsUndefined,
     duration |-> JsUndefined]

\* {}: what parseRequestBody resolves with when no data arrived
EmptyBody == Body(JsUndefined, JsUndefined, JsUndefined)

\* bodies that pass validation
ValidBodies ==
    { Body(JsString(Date0601), JsString(Time0900), JsInt(60)),
      Body(JsString(Date0601), JsString(Time0930), JsInt(40)),
      Body(JsString(Date0601), JsString(Time1000), JsInt(30)),
      Body(JsString(Date0602), JsString(Time0900), JsInt(60)),
      Body(JsString(Date0601), JsString(Time2330), JsString(<<"3", "0">>)),
      Body(JsString(Date0601), JsString(Time0099), JsInt(30)) }

\* bodies that validation rejects
InvalidBodies ==
    { Body(JsString(Date0601), JsString(Time2330), JsInt(31)),
      Body(JsString(DateShort), JsString(Time0900), JsInt(60)),
      Body(JsString(Date0601), JsString(Time0900), JsInt(0)) }

\* a request body JSON.parse throws on
BadJson ==
    [t |-> "invalid", date |-> JsUndefined, time |-> JsUndefined,
     duration |-> JsUndefined]

\* the non-empty request bodies, by what JSON.parse makes of them
BodyInputs == ValidBodies \cup InvalidBodies \cup {NullBody, BadJson}

\* the 1_000_000 of parseRequestBody
PayloadLimit == 1000000

\* the length of one chunk of a request body: two chunks exceed the limit,
\* one does not
ChunkLength == (PayloadLimit \div 2) + 1

\* ids a client asks DELETE for: 0, an id no booking has, and the ids
\* handed out so far
DeleteInputs(issued) == 0..issued

----------------------------------------------------------------------------
(* History records. *)

\* a response, with what the handler did to produce it
\* (rivals: the ids of the bookings other requests saved while this one's
\* body was being received)
Answer(op, status, error, bookings, booking, body, id, before, loaded, saved) ==
    [op |-> op, status |-> status, error |-> error, bookings |-> bookings,
     booking |-> booking, body |-> body, id |-> id, before |-> before,
     loaded |-> loaded, saved |-> saved, rivals |-> {}]

NoAnswer ==
    Answer("none", 0, "", <<>>, NoBooking, EmptyBody, 0, AbsentFile, FALSE, FALSE)

OverlapMessage == "Requested slot overlaps with an existing booking."
TooLargeMessage == "Payload too large"
InvalidJsonMessage == "Invalid JSON"
AbortedMessage == "aborted"
TypeErrorMessage == "Cannot read properties of null"
BookingNotFoundMessage == "Booking not found."

----------------------------------------------------------------------------
(* The program. *)

\* no function is being called on its own
NoCall == "none"

Init ==
    /\ listening = FALSE
    /\ crashed = FALSE
    /\ file = AbsentFile
    /\ reqs = <<>>
    /\ nextReq = 0
    /\ nextId = 0
    /\ clock = 0
    /\ last = NoAnswer
    /\ answers = <<>>
    /\ interleaved = FALSE
    /\ deleted = {}
    /\ input = NoCall
    /\ output = NoCall

\* the event loop may dispatch the next event
Ready == listening /\ ~crashed

\* server.listen's callback
Listen ==
    /\ ~listening
    /\ listening' = TRUE
    /\ file' = ensureDataFile(file)
    /\ UNCHANGED <<crashed, reqs, nextReq, nextId, clock, last, answers,
                   interleaved, deleted>>
    /\ UNCHANGED call

\* what the GET handler does with the file f: the response (status 0:
\* readBookings threw and nothing was sent), and the file afterwards
listBookings(f) ==
    LET r == readBookings(f)
    IN [answer |-> IF r.threw
                   THEN Answer("list", 0, r.message, <<>>, NoBooking,
                               EmptyBody, 0, f, TRUE, FALSE)
                   ELSE Answer("list", 200, NoError, sortBookings(r.value),
                               NoBooking, EmptyBody, 0, f, TRUE, FALSE),
        file |-> ensureDataFile(f)]

\* GET /api/bookings
List ==
    /\ Ready
    /\ LET l == listBookings(file)
       IN /\ crashed' = (l.answer.status = 0)
          /\ file' = l.file
          /\ last' = l.answer
    /\ interleaved' = (interleaved \/ DOMAIN reqs # {})
    /\ UNCHANGED <<listening, reqs, nextReq, nextId, clock, answers, deleted>>
    /\ UNCHANGED call

\* what the DELETE handler does with an id and the file f: the response
\* (status 0: readBookings or writeBookings threw and nothing was sent), and
\* the file afterwards
deleteBooking(bookingId, f) ==
    LET r == readBookings(f)
        bookings == r.value
        next == filterOut(bookings, bookingId)
    IN IF r.threw
       THEN [answer |-> Answer("delete", 0, r.message, <<>>, NoBooking,
                               EmptyBody, bookingId, f, TRUE, FALSE),
             file |-> ensureDataFile(f)]
       ELSE IF notFound(bookings, next)
       THEN [answer |-> Answer("delete", 404, BookingNotFoundMessage, <<>>,
                               NoBooking, EmptyBody, bookingId, f, TRUE, FALSE),
             file |-> ensureDataFile(f)]
       ELSE IF writeThrows(f)
       THEN [answer |-> Answer("delete", 0, AccessErrorMessage, <<>>, NoBooking,
                               EmptyBody, bookingId, f, TRUE, FALSE),
             file |-> f]
       ELSE [answer |-> Answer("delete", 200, NoError, <<>>, NoBooking,
                               EmptyBody, bookingId, f, TRUE, TRUE),
             file |-> writeBookings(next)]

\* DELETE /api/bookings/:id
Delete ==
    /\ Ready
    /\ \E bookingId \in DeleteInputs(nextId) :
         LET d == deleteBooking(bookingId, file)
             gone == d.answer.status = 200
         IN /\ crashed' = (d.answer.status = 0)
            /\ file' = d.file
            /\ last' = d.answer
            /\ deleted' = IF gone THEN deleted \cup {bookingId} ELSE deleted
            /\ reqs' = [q \in DOMAIN reqs |->
                          [reqs[q] EXCEPT !.rivals =
                              IF gone THEN @ \ {bookingId} ELSE @]]
    /\ interleaved' = (interleaved \/ DOMAIN reqs # {})
    /\ UNCHANGED <<listening, nextReq, nextId, clock, answers>>
    /\ UNCHANGED call

\* POST /api/bookings: handleApi calls parseRequestBody, which registers the
\* listeners, and returns
Post ==
    /\ Ready
    /\ nextReq < MaxRequests
    /\ Cardinality(DOMAIN reqs) < MaxInFlight
    /\ LET r == nextReq + 1
           others == DOMAIN reqs
       IN /\ nextReq' = r
          /\ reqs' = [q \in others \cup {r} |->
                        IF q = r
                        THEN [received |-> 0, settled |-> FALSE, rivals |-> {}]
                        ELSE reqs[q]]
          /\ interleaved' = (interleaved \/ others # {})
          /\ answers' = [q \in DOMAIN answers \cup {r} |->
                           IF q = r THEN 0 ELSE answers[q]]
    /\ UNCHANGED <<listening, crashed, file, nextId, clock, last, deleted>>
    /\ UNCHANGED call

\* the .then callback with the booking pushed and written before the
\* conflict is looked for
createBookingSaveFirst(body, f, id, now) ==
    IF body.t = "null"
    THEN [answer |-> Answer("create", 400, TypeErrorMessage, <<>>, NoBooking,
                            body, 0, f, FALSE, FALSE),
          file |-> f]
    ELSE
    LET slot == parseAndValidateSlot(body)
        r == readBookings(f)
        bookings == r.value
        conflict == findConflict(bookings, slot)
        booking == makeBooking(slot, id, now)
    IN IF slot.error # NoError
       THEN [answer |-> Answer("create", 400, slot.error, <<>>, NoBooking,
                               body, 0, f, FALSE, FALSE),
             file |-> f]
       ELSE IF r.threw
       THEN [answer |-> Answer("create", 400, r.message, <<>>,
                               NoBooking, body, 0, f, TRUE, FALSE),
             file |-> ensureDataFile(f)]
       ELSE IF writeThrows(f)
       THEN [answer |-> Answer("create", 400, AccessErrorMessage, <<>>,
                               NoBooking, body, 0, f, TRUE, FALSE),
             file |-> f]
       ELSE IF conflict # NoBooking
       THEN [answer |-> Answer("create", 409, OverlapMessage, <<>>, conflict,
                               body, 0, f, TRUE, TRUE),
             file |-> writeBookings(pushBooking(bookings, booking))]
       ELSE [answer |-> Answer("create", 201, NoError, <<>>, booking, body, 0,
                               f, TRUE, TRUE),
             file |-> writeBookings(pushBooking(bookings, booking))]

\* what the .then callback does with a body, the file f and the time now:
\* the response, and the file afterwards.  An exception thrown in the
\* callback rejects the promise .catch is chained on, whose callback answers
\* 400 with the exception's message.
createBooking(body, f, id, now) ==
    IF body.t = "null"
    THEN [answer |-> Answer("create", 400, TypeErrorMessage, <<>>, NoBooking,
                            body, 0, f, FALSE, FALSE),
          file |-> f]
    ELSE
    LET slot == parseAndValidateSlot(body)
        r == readBookings(f)
        bookings == r.value
        conflict == findConflict(bookings, slot)
        booking == makeBooking(slot, id, now)
    IN IF slot.error # NoError
       THEN [answer |-> Answer("create", 400, slot.error, <<>>, NoBooking,
                               body, 0, f, FALSE, FALSE),
             file |-> f]
       ELSE IF r.threw
       THEN [answer |-> Answer("create", 400, r.message, <<>>,
                               NoBooking, body, 0, f, TRUE, FALSE),
             file |-> ensureDataFile(f)]
       ELSE IF conflict # NoBooking
       THEN [answer |-> Answer("create", 409, OverlapMessage, <<>>, conflict,
                               body, 0, f, TRUE, FALSE),
             file |-> ensureDataFile(f)]
       ELSE IF writeThrows(f)
       THEN [answer |-> Answer("create", 400, AccessErrorMessage, <<>>,
                               NoBooking, body, 0, f, TRUE, FALSE),
             file |-> f]
       ELSE [answer |-> Answer("create", 201, NoError, <<>>, booking, body, 0,
                               f, TRUE, TRUE),
             file |-> writeBookings(pushBooking(bookings, booking))]

\* the .catch callback for an error with this message
catchError(message, f) ==
    [answer |-> Answer("create", IF message = TooLargeMessage THEN 413 ELSE 400,
                       message, <<>>, NoBooking, EmptyBody, 0, f, FALSE, FALSE),
     file |-> f]

\* the requests still being received, no promise taken as settled by a
\* rejection: a later resolve or reject runs its reaction again
ReceivingUnsettled(r, received, ended, saved) ==
    [q \in (IF ended THEN DOMAIN reqs \ {r} ELSE DOMAIN reqs) |->
        IF q = r
        THEN [reqs[r] EXCEPT !.received = received]
        ELSE [reqs[q] EXCEPT !.rivals = @ \cup saved]]

\* the requests still being received once request r has received some
\* more (ended: r is through), each with the id of a booking saved
\* meanwhile added to its rivals
Receiving(r, received, ended, saved) ==
    [q \in (IF ended THEN DOMAIN reqs \ {r} ELSE DOMAIN reqs) |->
        IF q = r
        THEN [reqs[r] EXCEPT !.received = received,
                             !.settled = @ \/ received > PayloadLimit]
        ELSE [reqs[q] EXCEPT !.rivals = @ \cup saved]]

\* the promise parseRequestBody returned for request r is settled and its
\* reaction runs: c is what the reaction does
React(r, c, received, ended) ==
    LET made == c.answer.status = 201
    IN /\ last' = [c.answer EXCEPT !.rivals = reqs[r].rivals]
       /\ file' = c.file
       /\ nextId' = IF made THEN nextId + 1 ELSE nextId
       /\ clock' = IF made THEN clock + 1 ELSE clock
       /\ answers' = [answers EXCEPT ![r] = @ + 1]
       /\ reqs' = Receiving(r, received, ended,
                            IF made THEN {nextId + 1} ELSE {})

\* resolve or reject called on a promise that is settled already: nothing
NoReaction(r, received, ended) ==
    /\ reqs' = Receiving(r, received, ended, {})
    /\ UNCHANGED <<file, nextId, clock, last, answers>>

\* the request's 'data' listener, and the .catch callback when it rejects
Data ==
    /\ Ready
    /\ \E r \in DOMAIN reqs :
         LET received == reqs[r].received + ChunkLength
         IN /\ received <= MaxChunks * ChunkLength
            /\ IF received > PayloadLimit /\ ~reqs[r].settled
               THEN React(r, catchError(TooLargeMessage, file), received, FALSE)
               ELSE NoReaction(r, received, FALSE)
    /\ UNCHANGED <<listening, crashed, nextReq, interleaved, deleted>>
    /\ UNCHANGED call

\* the request's 'end' listener, for data that is payload when there is
\* any, and the .then or .catch callback that follows it.  The clock is
\* read once for each booking made; it has ticked since the last reading.
End ==
    /\ Ready
    /\ \E r \in DOMAIN reqs :
         \E payload \in BodyInputs :
            LET body == IF reqs[r].received = 0 THEN EmptyBody ELSE payload
                c == IF body.t = "invalid"
                     THEN catchError(InvalidJsonMessage, file)
                     ELSE createBooking(body, file, nextId + 1, clock + 1)
            IN IF reqs[r].settled
               THEN NoReaction(r, reqs[r].received, TRUE)
               ELSE React(r, c, reqs[r].received, TRUE)
    /\ UNCHANGED <<listening, crashed, nextReq, interleaved, deleted>>
    /\ UNCHANGED call

\* the request's 'error' listener, and the .catch callback
RequestError ==
    /\ Ready
    /\ \E r \in DOMAIN reqs :
         IF reqs[r].settled
         THEN NoReaction(r, reqs[r].received, TRUE)
         ELSE React(r, catchError(AbortedMessage, file), reqs[r].received, TRUE)
    /\ UNCHANGED <<listening, crashed, nextReq, interleaved, deleted>>
    /\ UNCHANGED call

Next ==
    \/ Listen
    \/ List
    \/ Delete
    \/ Post
    \/ Data
    \/ End
    \/ RequestError

Spec == Init /\ [][Next]_vars

\* what the server may find in data/bookings.json when it starts
StoredFiles == {AbsentFile, NonArrayFile, CorruptFile}

InitStored ==
    /\ listening = FALSE
    /\ crashed = FALSE
    /\ file \in StoredFiles
    /\ reqs = <<>>
    /\ nextReq = 0
    /\ nextId = 0
    /\ clock = 0
    /\ last = NoAnswer
    /\ answers = <<>>
    /\ interleaved = FALSE
    /\ deleted = {}
    /\ input = NoCall
    /\ output = NoCall

\* the server started on a data file it did not write
SpecStored == InitStored /\ [][Next]_vars

----------------------------------------------------------------------------
(* The server when the listen callback runs and no request body is being   *)
(* received for ever: its stream ends or fails at some time.  The 'error'  *)
(* event of a request is enabled for as long as the request is being       *)
(* received and happens at most once, so weak fairness of it says that the *)
(* request stops being received, by its 'end' event or by its 'error'      *)
(* event.                                                                  *)

\* the 'error' event of request r
Fails(r) ==
    /\ r \in DOMAIN reqs
    /\ RequestError
    /\ r \notin DOMAIN reqs'

Fairness ==
    /\ WF_vars(Listen)
    /\ \A r \in 1..MaxRequests : WF_vars(Fails(r))

SpecFair == Init /\ [][Next]_vars /\ Fairness

----------------------------------------------------------------------------
(* The server on a data file whose permissions may be taken away. *)

\* the permissions the data file may be left with
RevokedKinds == {"unreadable", "readonly"}

\* chmod on data/bookings.json by another process: reads, or writes,
\* throw from now on
Revoke ==
    /\ Ready
    /\ file.kind = "array"
    /\ \E kind \in RevokedKinds : file' = [file EXCEPT !.kind = kind]
    /\ UNCHANGED <<listening, crashed, reqs, nextReq, nextId, clock, last,
                   answers, interleaved, deleted>>
    /\ UNCHANGED call

NextFailing == Next \/ Revoke

SpecFailing == Init /\ [][NextFailing]_vars

----------------------------------------------------------------------------
(* parseAndValidateSlot called on its own, on every body of SlotInputs. *)

DateSlashes == <<"2", "0", "2", "4", "/", "0", "6", "/", "0", "1">>
DateLong == <<"2", "0", "2", "4", "-", "0", "6", "-", "0", "1", "1">>
Time2359 == <<"2", "3", ":", "5", "9">>
Time2400 == <<"2", "4", ":", "0", "0">>
TimeNoColon == <<"0", "9", "0", "0">>
TimeDot == <<"0", "9", ".", "0", "0">>

\* values of the field date
DateInputs ==
    { JsString(Date0601), JsString(DateShort), JsString(DateSlashes),
      JsString(DateLong), JsString(<<>>), JsInt(20240601), JsUndefined }

\* values of the field time
TimeInputs ==
    { JsString(Time0900), JsString(Time2330), JsString(Time2359),
      JsString(Time2400), JsString(Time0099), JsString(TimeShort),
      JsString(TimeNoColon), JsString(TimeDot), JsInt(900), JsUndefined }

\* values of the field duration
DurationInputs ==
    { JsInt(-30), JsInt(0), JsInt(1), JsInt(30), JsInt(31), JsInt(60),
      JsInt(1441), JsHalf(30), JsHalf(0), JsString(<<"3", "0">>),
      JsString(<<"3", "1">>), JsString(<<"0">>),
      JsString(<<"3", "0", ".", "5">>), JsString(<<"a", "b", "c">>),
      JsString(<<>>), JsTrue, JsFalse, JsNull, JsUndefined }

\* the bodies the validator is called with
SlotInputs ==
    { Body(date, time, duration) :
        date \in DateInputs, time \in TimeInputs, duration \in DurationInputs }

\* the server before it has started listening
Idle ==
    /\ listening = FALSE
    /\ crashed = FALSE
    /\ file = AbsentFile
    /\ reqs = <<>>
    /\ nextReq = 0
    /\ nextId = 0
    /\ clock = 0
    /\ last = NoAnswer
    /\ answers = <<>>
    /\ interleaved = FALSE
    /\ deleted = {}

\* the variables of the server
server ==
    <<listening, crashed, file, reqs, nextReq, nextId, clock, last, answers,
      interleaved, deleted>>

\* parseAndValidateSlot has not returned
NotValidated == NoSlot("not returned")

InitValidator ==
    /\ Idle
    /\ input \in SlotInputs
    /\ output = NotValidated

\* the call parseAndValidateSlot(body)
Validate ==
    /\ output = NotValidated
    /\ output' = parseAndValidateSlot(input)
    /\ UNCHANGED <<server, input>>

NextValidator == Validate

SpecValidator == InitValidator /\ [][NextValidator]_vars

----------------------------------------------------------------------------
(* hasOverlap called on its own, on the slots of every two bodies of      *)
(* IntervalInputs, both ways round, and the .then callback called with    *)
(* the second body on a collection that holds the booking of the first.   *)

Time1030 == <<"1", "0", ":", "3", "0">>

\* bodies with one date that pass validation
IntervalInputs ==
    { Body(JsString(Date0601), JsString(time), JsInt(duration)) :
        time \in {Time0900, Time0930, Time1000, Time1030},
        duration \in {29, 30, 31, 60, 90} }

\* hasOverlap has not returned
NotCompared == [ab |-> FALSE, ba |-> FALSE, status |-> 0]

InitOverlap ==
    /\ Idle
    /\ input \in IntervalInputs \X IntervalInputs
    /\ output = NotCompared

\* hasOverlap(a, b), hasOverlap(b, a), and the status of the create of b
\* when the collection holds the booking of a
Compare ==
    /\ output = NotCompared
    /\ LET a == parseAndValidateSlot(input[1])
           b == parseAndValidateSlot(input[2])
           stored == writeBookings(<<makeBooking(a, 1, 1)>>)
       IN output' =
             [ab |-> hasOverlap(a.startMinutes, a.endMinutes,
                                b.startMinutes, b.endMinutes),
              ba |-> hasOverlap(b.startMinutes, b.endMinutes,
                                a.startMinutes, a.endMinutes),
              status |-> createBooking(input[2], stored, 2, 2).answer.status]
    /\ UNCHANGED <<server, input>>

NextOverlap == Compare

SpecOverlap == InitOverlap /\ [][NextOverlap]_vars

----------------------------------------------------------------------------
(* The properties. *)

\* the persisted collection: the bookings a payload holds
Collection(f) == IF f.kind = "array" THEN f.items ELSE <<>>

\* the half-open intervals of two bookings have no minute in common
Disjoint(a, b) ==
    a.endMinutes <= b.startMinutes \/ b.endMinutes <= a.startMinutes

\* C1: as long as no request was handled while another was being received,
\* any two distinct bookings of the persisted collection that have the same
\* date occupy disjoint half-open intervals [startMinutes, endMinutes).
SequentialNoOverlap ==
    ~interleaved =>
        \A i, j \in 1..Len(Collection(file)) :
            LET a == Collection(file)[i]
                b == Collection(file)[j]
            IN (i # j /\ a.date = b.date) => Disjoint(a, b)

\* C1 witness: a sequential run has made three bookings on one date, two of
\* them touching.
SequentialNoOverlapWitness ==
    /\ ~interleaved
    /\ last.op = "create"
    /\ last.status = 201
    /\ \E i, j, k \in 1..Len(Collection(file)) :
          LET a == Collection(file)[i]
              b == Collection(file)[j]
              c == Collection(file)[k]
          IN /\ i # j /\ j # k /\ i # k
             /\ a.date = b.date /\ b.date = c.date
             /\ a.endMinutes = b.startMinutes

\* the slot a create request's body was validated to
SlotOf(answer) == parseAndValidateSlot(answer.body)

\* a create request's body passed validation
Validated(answer) ==
    /\ answer.op = "create"
    /\ answer.body.t = "object"
    /\ SlotOf(answer).error = NoError

\* C2: a create with a validated slot is answered with a conflict exactly
\* when a booking of the loaded collection has the slot's date and
\* newStart < existingEnd and newEnd > existingStart; otherwise it succeeds.
ConflictIffOverlapOnDate ==
    Validated(last) =>
        LET slot == SlotOf(last)
            loaded == Collection(last.before)
            clash == \E i \in 1..Len(loaded) :
                        /\ loaded[i].date = slot.date
                        /\ slot.startMinutes < loaded[i].endMinutes
                        /\ slot.endMinutes > loaded[i].startMinutes
        IN /\ last.status = 409 <=> clash
           /\ ~clash => last.status = 201

\* C2 witness: a create succeeded although a booking on another date covers
\* the same minutes, while the collection also holds a booking on its date.
ConflictIffOverlapOnDateWitness ==
    /\ Validated(last)
    /\ last.status = 201
    /\ \E i, j \in 1..Len(Collection(last.before)) :
          LET a == Collection(last.before)[i]
              b == Collection(last.before)[j]
          IN /\ a.date # last.booking.date
             /\ ~Disjoint(a, last.booking)
             /\ b.date = last.booking.date

\* the persisted collection holds a booking with this id
Holds(f, id) == \E k \in 1..Len(Collection(f)) : Collection(f)[k].id = id

\* a create answered 201 with a booking that no DELETE was answered 200
\* for, and the persisted collection does not hold it
LostUpdate == \E id \in 1..nextId : id \notin deleted /\ ~Holds(file, id)

\* C3, as amended: however create requests interleave, the persisted
\* collection holds every booking a create reported success for and no
\* delete has removed since, the bookings other requests saved while the
\* request was being received among them, and no two of them overlap on a
\* date.
NoLostUpdate ==
    /\ ~LostUpdate
    /\ (last.op = "create" /\ last.status = 201) =>
          /\ \E k \in 1..Len(Collection(file)) :
                Collection(file)[k] = last.booking
          /\ \A id \in last.rivals : Holds(file, id)
    /\ \A i, j \in 1..Len(Collection(file)) :
          LET a == Collection(file)[i]
              b == Collection(file)[j]
          IN (i # j /\ a.date = b.date) => Disjoint(a, b)

\* C3 witness: a create succeeded for a request that was being received
\* while another request's create saved a booking on the same date.
NoLostUpdateWitness ==
    /\ last.op = "create"
    /\ last.status = 201
    /\ \E k \in 1..Len(Collection(file)) :
          /\ Collection(file)[k].id \in last.rivals
          /\ Collection(file)[k].date = last.booking.date

\* C3 as stated: when a create succeeds for a request that was being
\* received while another request's create saved a booking, its save
\* discards that booking: both creates reported success and the persisted
\* collection does not hold both bookings.
SecondSaveDiscardsFirst ==
    (last.op = "create" /\ last.status = 201 /\ last.rivals # {}) =>
        \E id \in last.rivals : ~Holds(file, id)

\* s holds the booking b
In(s, b) == \E k \in 1..Len(s) : s[k] = b

\* C4: in a run without interleaving, a booking create has returned is in
\* the persisted collection when create answers, and every step keeps each
\* booking of the persisted collection as it is, except the step in which
\* a DELETE of its id is answered 200.
BookingKeptUntilDeleted ==
    [][~interleaved' =>
         /\ (last' # last /\ last'.op = "create" /\ last'.status = 201) =>
               In(Collection(file'), last'.booking)
         /\ \A k \in 1..Len(Collection(file)) :
               LET b == Collection(file)[k]
               IN \/ In(Collection(file'), b)
                  \/ /\ last' # last
                     /\ last'.op = "delete"
                     /\ last'.status = 200
                     /\ last'.id = b.id]_vars

\* C4 witness: in a run without interleaving a DELETE was answered 200 and
\* the collection still holds a booking made before the deleted one and a
\* booking made after it.
BookingKeptUntilDeletedWitness ==
    /\ ~interleaved
    /\ last.op = "delete"
    /\ last.status = 200
    /\ \E i, j \in 1..Len(Collection(file)) :
          /\ Collection(file)[i].id < last.id
          /\ Collection(file)[j].id > last.id

\* the indexes of s whose booking has another id than id
KeptIndexes(s, id) == {i \in 1..Len(s) : s[i].id # id}

\* the k-th smallest element of a set of numbers
Nth(S, k) == CHOOSE i \in S : Cardinality({j \in S : j <= i}) = k

\* C5: DELETE is answered 200 exactly when the loaded collection holds a
\* booking with the id; then the persisted collection is the loaded one
\* without the bookings of that id, the others in their order; and the
\* collection is saved exactly when its length changed.
DeleteRemovesExactlyId ==
    (last.op = "delete" /\ last.status # 0) =>
        LET loaded == Collection(last.before)
            now == Collection(file)
            kept == KeptIndexes(loaded, last.id)
        IN /\ last.status \in {200, 404}
           /\ last.status = 200 <=> \E i \in 1..Len(loaded) : loaded[i].id = last.id
           /\ Len(now) = Cardinality(kept)
           /\ \A k \in 1..Len(now) : now[k] = loaded[Nth(kept, k)]
           /\ last.saved <=> Len(now) # Len(loaded)

\* C5 witness: a DELETE answered 200 removed the second of three bookings.
DeleteRemovesExactlyIdWitness ==
    /\ last.op = "delete"
    /\ last.status = 200
    /\ Len(Collection(last.before)) = 3
    /\ Collection(last.before)[2].id = last.id
    /\ Len(Collection(file)) = 2

\* C6: a DELETE for an id that no booking of the collection has is
\* answered 404 "Booking not found." (a response: no exception ends the
\* process), saves nothing and leaves the persisted collection as it was.
DeleteAbsentIdNotFound ==
    (/\ last.op = "delete"
     /\ \A i \in 1..Len(Collection(last.before)) :
           Collection(last.before)[i].id # last.id) =>
        /\ last.status = 404
        /\ last.error = BookingNotFoundMessage
        /\ ~crashed
        /\ ~last.saved
        /\ Collection(file) = Collection(last.before)

\* C6 witness: a DELETE for the id of a booking deleted before was answered
\* 404 while the collection holds other bookings.
DeleteAbsentIdNotFoundWitness ==
    /\ last.op = "delete"
    /\ last.status = 404
    /\ last.id \in deleted
    /\ Len(Collection(file)) >= 2

\* how often s holds b
Count(s, b) == Cardinality({k \in 1..Len(s) : s[k] = b})

\* the date string a is before the date string b, character by character
DateBefore(a, b) ==
    \E k \in 1..Len(a) :
       /\ k <= Len(b)
       /\ \A j \in 1..(k - 1) : a[j] = b[j]
       /\ CharRank(a[k]) < CharRank(b[k])

\* C7: list returns the bookings of the collection, each as often as the
\* collection holds it, in ascending order of date and, for equal dates, of
\* startMinutes.
ListSortedPermutation ==
    (last.op = "list" /\ last.status = 200) =>
        LET loaded == Collection(last.before)
            out == last.bookings
        IN /\ Len(out) = Len(loaded)
           /\ \A k \in 1..Len(loaded) : Count(out, loaded[k]) = Count(loaded, loaded[k])
           /\ \A i, j \in 1..Len(out) :
                 i < j => \/ DateBefore(out[i].date, out[j].date)
                          \/ /\ out[i].date = out[j].date
                             /\ out[i].startMinutes <= out[j].startMinutes

\* C7 witness: list returned three bookings of two dates that the
\* collection stores with the later date first and, on one date, the later
\* start first.
ListSortedPermutationWitness ==
    /\ last.op = "list"
    /\ last.status = 200
    /\ Len(last.bookings) = 3
    /\ \E i, j \in 1..3 :
          /\ i < j
          /\ DateBefore(Collection(last.before)[j].date,
                        Collection(last.before)[i].date)
    /\ \E i, j \in 1..3 :
          /\ i < j
          /\ Collection(last.before)[i].date = Collection(last.before)[j].date
          /\ Collection(last.before)[i].startMinutes
                > Collection(last.before)[j].startMinutes

\* C8: a list leaves the persisted collection, content and order, as it
\* was and saves nothing; and a list that follows a list, with no create
\* or delete answered between them, returns the same sequence.
ListChangesNothing ==
    [][/\ last'.op = "list" =>
             /\ Collection(file') = Collection(last'.before)
             /\ ~last'.saved
       /\ (/\ last.op = "list" /\ last.status = 200
           /\ last'.op = "list" /\ last'.status = 200) =>
             last'.bookings = last.bookings]_vars

\* C8 witness: list returned a sorted view that differs from the storage
\* order of the collection, which is still as it was.
ListChangesNothingWitness ==
    /\ last.op = "list"
    /\ last.status = 200
    /\ Len(last.bookings) >= 2
    /\ last.bookings # Collection(file)
    /\ Collection(file) = Collection(last.before)

\* C9 as stated: an operation that loads a payload that is not JSON or is
\* not an array treats it as the empty collection and does not fail: list
\* returns the empty sequence, create of a valid slot succeeds and delete
\* reports "not found".
UnreadablePayloadIsEmpty ==
    (last.loaded /\ last.before.kind \in {"corrupt", "nonarray"}) =>
        /\ ~crashed
        /\ last.op = "list" => (last.status = 200 /\ last.bookings = <<>>)
        /\ last.op = "create" => last.status = 201
        /\ last.op = "delete" => last.status = 404

\* the minutes since midnight that a time string HH:MM names
MinutesOf(t) ==
    (10 * DigitVal(t[1]) + DigitVal(t[2])) * 60
        + 10 * DigitVal(t[4]) + DigitVal(t[5])

\* C10: every booking of the persisted collection has
\* 0 <= startMinutes < endMinutes <= 1440, startMinutes the hours * 60 +
\* minutes of its time, endMinutes = startMinutes + duration, and a
\* duration that is a positive integer.
PersistedSlotBounds ==
    \A k \in 1..Len(Collection(file)) :
        LET b == Collection(file)[k]
        IN /\ 0 <= b.startMinutes
           /\ b.startMinutes < b.endMinutes
           /\ b.endMinutes <= 1440
           /\ b.startMinutes = MinutesOf(b.time)
           /\ b.duration.t = "number"
           /\ b.duration.k = "int"
           /\ b.duration.n > 0
           /\ b.endMinutes = b.startMinutes + b.duration.n

\* C10 witness: create persisted a booking that ends at minute 1440, its
\* duration sent as a string.
PersistedSlotBoundsWitness ==
    /\ last.op = "create"
    /\ last.status = 201
    /\ last.body.duration.t = "string"
    /\ In(Collection(file), last.booking)
    /\ last.booking.endMinutes = 1440

\* the hours field and the minutes field of a time string HH:MM
HoursField(t) == 10 * DigitVal(t[1]) + DigitVal(t[2])
MinutesField(t) == 10 * DigitVal(t[4]) + DigitVal(t[5])

\* C11 as stated: every booking of the persisted collection has a time
\* whose hours field is in 00..23 and whose minutes field is in 00..59.
PersistedTimeIsWallClock ==
    \A k \in 1..Len(Collection(file)) :
        LET b == Collection(file)[k]
        IN /\ HoursField(b.time) \in 0..23
           /\ MinutesField(b.time) \in 0..59

\* a pattern of characters, "d" standing for any digit
DatePattern == <<"d", "d", "d", "d", "-", "d", "d", "-", "d", "d">>
TimePattern == <<"d", "d", ":", "d", "d">>

\* the value v is a string that matches the pattern, end to end
Matches(v, pattern) ==
    /\ v.t = "string"
    /\ Len(v.s) = Len(pattern)
    /\ \A i \in 1..Len(pattern) :
          IF pattern[i] = "d" THEN v.s[i] \in DigitChars
          ELSE v.s[i] = pattern[i]

\* the values of DurationInputs that JavaScript coerces to a positive
\* integer, each with that integer
PositiveIntegerDurations ==
    { <<JsInt(1), 1>>, <<JsInt(30), 30>>, <<JsInt(31), 31>>, <<JsInt(60), 60>>,
      <<JsInt(1441), 1441>>, <<JsString(<<"3", "0">>), 30>>,
      <<JsString(<<"3", "1">>), 31>>, <<JsTrue, 1>> }

IsPositiveIntegerDuration(d) == \E p \in PositiveIntegerDurations : p[1] = d

CoercedDuration(d) == (CHOOSE p \in PositiveIntegerDurations : p[1] = d)[2]

\* date, time and duration of a body pass the field checks
FieldChecksPass(body) ==
    /\ Matches(body.date, DatePattern)
    /\ Matches(body.time, TimePattern)
    /\ IsPositiveIntegerDuration(body.duration)

\* C12: for a body whose date, time and duration pass the field checks,
\* the validator rejects with "Meeting cannot cross midnight." exactly when
\* the minutes of the time plus the duration exceed 1440; otherwise it
\* accepts the slot, with that sum as its end, a sum of exactly 1440 too.
MidnightExactlyPastDayEnd ==
    (output # NotValidated /\ FieldChecksPass(input)) =>
        LET end == MinutesOf(input.time.s) + CoercedDuration(input.duration)
        IN /\ output.error = MidnightMessage <=> end > 1440
           /\ end <= 1440 =>
                 /\ output.error = NoError
                 /\ output.startMinutes = MinutesOf(input.time.s)
                 /\ output.endMinutes = end

\* C12 witness: the validator has accepted 23:30 with duration 30, which
\* ends at minute 1440.
MidnightExactlyPastDayEndWitness ==
    /\ input.time = JsString(Time2330)
    /\ input.duration = JsInt(30)
    /\ output.error = NoError
    /\ output.endMinutes = 1440

\* C13: the validator returns "Invalid date, time, or duration." exactly
\* when the date is not a string of the form dddd-dd-dd, or the time is not
\* a string of the form dd:dd, or the duration coerced to a number is not a
\* positive integer; a number that is not an integer or is <= 0 is such a
\* duration; and a body with a failing field gets this error also when its
\* time and duration would cross midnight.
GenericErrorIffFieldFails ==
    output # NotValidated =>
        /\ output.error = InvalidMessage <=> ~FieldChecksPass(input)
        /\ (/\ input.duration.t = "number"
            /\ input.duration.k # "int" \/ input.duration.n <= 0) =>
              output.error = InvalidMessage
        /\ output.error \in {InvalidMessage, MidnightMessage, NoError}

\* C13 witness: the validator has returned the generic error for a body
\* whose date alone fails and whose time and duration would cross midnight.
GenericErrorIffFieldFailsWitness ==
    /\ input = Body(JsString(DateShort), JsString(Time2330), JsInt(31))
    /\ output.error = InvalidMessage

\* the booking b has the fields of the slot
MatchesSlot(b, slot) ==
    /\ b.date = slot.date
    /\ b.time = slot.time
    /\ b.duration = slot.duration
    /\ b.startMinutes = slot.startMinutes
    /\ b.endMinutes = slot.endMinutes

\* C14: in a run without interleaving, a list that follows a create
\* answered 201 is answered 200 with exactly one booking that has the date,
\* time, duration, startMinutes and endMinutes the create's body was
\* validated to, and it is the booking the create returned; and a list that
\* follows a DELETE answered 200 returns no booking with the deleted id.
CreateListDeleteRoundTrip ==
    [][(~interleaved' /\ last' # last /\ last'.op = "list") =>
         /\ (last.op = "create" /\ last.status = 201) =>
               /\ last'.status = 200
               /\ Cardinality({k \in 1..Len(last'.bookings) :
                      MatchesSlot(last'.bookings[k], SlotOf(last))}) = 1
               /\ \E k \in 1..Len(last'.bookings) :
                     /\ last'.bookings[k] = last.booking
                     /\ MatchesSlot(last'.bookings[k], SlotOf(last))
         /\ (last.op = "delete" /\ last.status = 200) =>
               /\ last'.status = 200
               /\ \A k \in 1..Len(last'.bookings) :
                     last'.bookings[k].id # last.id]_vars

\* C14 witness: in a run without interleaving, list has returned the
\* booking made last, between others, and not the one whose id a DELETE
\* was answered 200 for.
CreateListDeleteRoundTripWitness ==
    /\ ~interleaved
    /\ last.op = "list"
    /\ last.status = 200
    /\ Len(last.bookings) >= 2
    /\ \E k \in 1..Len(last.bookings) : last.bookings[k].id = nextId
    /\ \E id \in deleted : \A k \in 1..Len(last.bookings) : last.bookings[k].id # id

\* C15 as stated: when fs.readFileSync or fs.writeFileSync throws during a
\* list, create or delete, a response carrying the error is sent, the
\* persisted collection is left as it was, and the process goes on serving
\* requests.
PersistenceFailureEndsOperationOnly ==
    last.error = AccessErrorMessage =>
        /\ last.status # 0
        /\ file = last.before
        /\ ~crashed

\* C16: a list or a delete is answered in the step that handles it; no
\* create request is ever sent more than one response; and every create
\* request the server has accepted is at some time sent its response,
\* given that its body stream ends or fails, also when the body has
\* exceeded the size limit before.
EveryRequestAnsweredOnce ==
    /\ [](last.op \in {"list", "delete"} => (last.status # 0 /\ ~crashed))
    /\ [](\A r \in DOMAIN answers : answers[r] <= 1)
    /\ [](\A r \in DOMAIN answers : r \notin DOMAIN reqs => answers[r] = 1)
    /\ \A r \in 1..MaxRequests :
          [](r \in DOMAIN answers =>
                <>(r \in DOMAIN answers /\ answers[r] = 1))

\* C16 witness: every request body has ended, each request was sent one
\* response, and the last of them was the 413 sent when the body exceeded
\* the limit, before that body ended.
EveryRequestAnsweredOnceWitness ==
    /\ nextReq = MaxRequests
    /\ reqs = <<>>
    /\ \A r \in DOMAIN answers : answers[r] = 1
    /\ last.status = 413

\* C17: a create that validation rejects is answered 400 with the
\* validator's error without the collection having been loaded, the file
\* as it was; a create answered 409 had a validated slot that overlaps a
\* loaded booking of its date; and a create that is not answered 201 saves
\* nothing and leaves the persisted collection as it was.
RejectedCreateChangesNothing ==
    last.op = "create" =>
        LET slot == SlotOf(last)
            loaded == Collection(last.before)
        IN /\ last.error \in {InvalidMessage, MidnightMessage} =>
                 /\ slot.error = last.error
                 /\ last.status = 400
                 /\ ~last.loaded
                 /\ ~last.saved
                 /\ file = last.before
           /\ last.status = 409 =>
                 /\ slot.error = NoError
                 /\ \E i \in 1..Len(loaded) :
                       /\ loaded[i].date = slot.date
                       /\ ~Disjoint(loaded[i], slot)
                 /\ last.loaded
                 /\ ~last.saved
                 /\ Collection(file) = loaded
           /\ last.status # 201 =>
                 (~last.saved /\ Collection(file) = loaded)

\* C17 witness: a create was answered 409 and the persisted collection,
\* two bookings or more, is as it was loaded.
RejectedCreateChangesNothingWitness ==
    /\ last.op = "create"
    /\ last.status = 409
    /\ Len(Collection(last.before)) >= 2
    /\ Collection(file) = Collection(last.before)

\* the indexes of the bookings of s that have the slot's date and overlap it
Overlapping(s, slot) ==
    {i \in 1..Len(s) :
        /\ s[i].date = slot.date
        /\ slot.startMinutes < s[i].endMinutes
        /\ slot.endMinutes > s[i].startMinutes}

\* C18: the booking sent with a 409 is a booking of the persisted
\* collection that has the slot's date and overlaps the slot, and of those
\* it is the one stored first, whatever their start times.
ConflictIsFirstInStorageOrder ==
    (last.op = "create" /\ last.status = 409) =>
        LET loaded == Collection(last.before)
            hits == Overlapping(loaded, SlotOf(last))
        IN /\ hits # {}
           /\ \E i \in hits :
                 /\ \A j \in hits : i <= j
                 /\ last.booking = loaded[i]
           /\ In(Collection(file), last.booking)
           /\ last.booking.date = SlotOf(last).date

\* C18 witness: a create was answered 409 for a slot that overlaps two
\* stored bookings of its date, with the one stored first, which starts
\* later than the other.
ConflictIsFirstInStorageOrderWitness ==
    /\ last.op = "create"
    /\ last.status = 409
    /\ \E i, j \in Overlapping(Collection(last.before), SlotOf(last)) :
          /\ i < j
          /\ last.booking = Collection(last.before)[i]
          /\ Collection(last.before)[j].startMinutes < last.booking.startMinutes

\* the minutes [start, end) that a body's time and duration name
MinutesOfBody(body) ==
    {minute \in 0..1439 :
        /\ MinutesOf(body.time.s) <= minute
        /\ minute < MinutesOf(body.time.s) + body.duration.n}

\* C19: for any two slots a and b, hasOverlap(a, b) = hasOverlap(b, a);
\* it is true exactly when the half-open intervals share a minute, so not
\* when one ends at the minute the other starts; and a create of b on the
\* date of a stored booking a succeeds exactly when they do not overlap,
\* so a create adjacent to a succeeds.
OverlapSymmetricHalfOpen ==
    output # NotCompared =>
        LET a == MinutesOfBody(input[1])
            b == MinutesOfBody(input[2])
            touching ==
                \/ MinutesOf(input[1].time.s) + input[1].duration.n
                      = MinutesOf(input[2].time.s)
                \/ MinutesOf(input[2].time.s) + input[2].duration.n
                      = MinutesOf(input[1].time.s)
        IN /\ output.ab = output.ba
           /\ output.ab <=> a \cap b # {}
           /\ touching => ~output.ab
           /\ touching => output.status = 201
           /\ output.status = IF a \cap b # {} THEN 409 ELSE 201

\* C19 witness: hasOverlap has returned false both ways for 540-600 and
\* 600-630, and the create of 600-630 after 540-600 was answered 201.
OverlapSymmetricHalfOpenWitness ==
    /\ input[1] = Body(JsString(Date0601), JsString(Time0900), JsInt(60))
    /\ input[2] = Body(JsString(Date0601), JsString(Time1000), JsInt(30))
    /\ ~output.ab
    /\ ~output.ba
    /\ output.status = 201

====
